---- MODULE Spec2Model ----
(***************************************************************************)
(* Model of the topic-analysis batch pipeline:                             *)
(*   llm_client.py     LLMClient._extract_json_object, _safe_parse_json,   *)
(*                     call_llm                                            *)
(*   file_processor.py save_progress, load_progress, save_results,         *)
(*                     load_existing_results                               *)
(*   main.py           main (the checkpointed batch driver)                *)
(*                                                                         *)
(* A text is a sequence of tokens.  A token is one character; the four     *)
(* required field names and the words json and null are one token each.    *)
(***************************************************************************)
EXTENDS Integers, Sequences, FiniteSets, TLC

\* ------------------------------------------------------------ characters
LB == "{"
RB == "}"
QT == "\""
BS == "\\"
NL == "\n"
SP == " "
\* one backquote character of a markdown fence
BT == "bq"
COLON == ":"
COMMA == ","
LSQ == "["
RSQ == "]"

\* the four required field names (llm_client.py line 215), one token each
F_CAT == "topic_category"
F_TAGS == "topic_tags"
F_DESC == "topic_description"
F_MEM == "related_memory"

IsSpace(c) == c \in {SP, NL}

\* ------------------------------------------------------- string helpers
\* text[i:j] of Python, 1-based inclusive bounds lo..hi
Slice(t, lo, hi) == IF lo > hi THEN <<>> ELSE SubSeq(t, lo, hi)

Min(S) == CHOOSE x \in S : \A y \in S : x <= y
Max(S) == CHOOSE x \in S : \A y \in S : x >= y

\* str.strip(): the text between its first and its last non-whitespace token
Strip(t) ==
  LET ns == {i \in 1..Len(t) : ~IsSpace(t[i])} IN
  IF ns = {} THEN <<>> ELSE SubSeq(t, Min(ns), Max(ns))

\* whether pat occurs in t at position i
StartsAt(t, i, pat) ==
  /\ i + Len(pat) - 1 <= Len(t)
  /\ \A k \in 1..Len(pat) : t[i + k - 1] = pat[k]

\* first position >= i whose token is not whitespace (Len(t)+1 when none)
SkipWs(t, i) == Min({j \in i..(Len(t) + 1) : j > Len(t) \/ ~IsSpace(t[j])})

\* str.find(c): first position of token c, 0 when absent
\* (from position i on)
FindFrom(t, c, i) ==
  LET ps == {j \in i..Len(t) : t[j] = c} IN IF ps = {} THEN 0 ELSE Min(ps)

Find(t, c) == FindFrom(t, c, 1)

\* ------------------------------------------------------ decoded values
\* every decoded JSON value has the same four fields, so that any two are
\* comparable: t the type, s the characters of a string or the digits of a
\* number, m the members of an object as <<key, value>> pairs, l the items
\* of an array
\* the None of Python, which is also what JSON null decodes to
None == [t |-> "None", s |-> <<>>, m |-> {}, l |-> <<>>]
JNull == None
JStr(s) == [t |-> "str", s |-> s, m |-> {}, l |-> <<>>]
JNum(s) == [t |-> "num", s |-> s, m |-> {}, l |-> <<>>]
JObj(m) == [t |-> "obj", s |-> <<>>, m |-> m, l |-> <<>>]
JArr(l) == [t |-> "arr", s |-> <<>>, m |-> {}, l |-> l]

\* dict[key] = value: a repeated key keeps the last value
Put(m, k, v) == {p \in m : p[1] # k} \cup {<<k, v>>}
Keys(m) == {p[1] : p \in m}

\* ------------------------------------------------- json.loads (strict)
PFail == [ok |-> FALSE, pos |-> 0, val |-> JNull]
POk(p, v) == [ok |-> TRUE, pos |-> p, val |-> v]

\* the body of a string from position j (after the opening quote): an
\* unescaped quote ends it, a backslash takes the next character as an
\* escape, a raw control character is an error
RECURSIVE ScanString(_, _, _)
ScanString(t, j, acc) ==
  IF j > Len(t) THEN PFail
  ELSE IF t[j] = QT THEN POk(j + 1, JStr(acc))
  ELSE IF t[j] = BS THEN
    IF j + 1 > Len(t) THEN PFail
    ELSE IF t[j + 1] \in {QT, BS, "/"} THEN ScanString(t, j + 2, Append(acc, t[j + 1]))
    ELSE IF t[j + 1] = "n" THEN ScanString(t, j + 2, Append(acc, NL))
    ELSE IF t[j + 1] = "b" THEN ScanString(t, j + 2, Append(acc, "backspace"))
    ELSE IF t[j + 1] = "r" THEN ScanString(t, j + 2, Append(acc, "return"))
    ELSE PFail
  ELSE IF t[j] = NL THEN PFail
  ELSE ScanString(t, j + 1, Append(acc, t[j]))

\* the first position >= j that holds no digit (the only digit is 1; a
\* number is digits, then optionally e and digits)
ScanDigits(t, j) == Min({e \in j..(Len(t) + 1) : e > Len(t) \/ t[e] # "1"})

RECURSIVE ParseValue(_, _)
RECURSIVE ParseMembers(_, _, _)
RECURSIVE ParseItems(_, _, _)

\* one value starting exactly at position i
ParseValue(t, i) ==
  IF i > Len(t) THEN PFail
  ELSE IF t[i] = QT THEN ScanString(t, i + 1, <<>>)
  ELSE IF t[i] = "1" THEN
    LET d == ScanDigits(t, i)
        e == IF d + 1 <= Len(t) /\ t[d] = "e" /\ t[d + 1] = "1"
             THEN ScanDigits(t, d + 1) ELSE d
    IN POk(e, JNum(SubSeq(t, i, e - 1)))
  ELSE IF t[i] = "null" THEN POk(i + 1, JNull)
  ELSE IF t[i] = LB THEN
    LET j == SkipWs(t, i + 1) IN
    IF j <= Len(t) /\ t[j] = RB THEN POk(j + 1, JObj({}))
    ELSE ParseMembers(t, j, {})
  ELSE IF t[i] = LSQ THEN
    LET j == SkipWs(t, i + 1) IN
    IF j <= Len(t) /\ t[j] = RSQ THEN POk(j + 1, JArr(<<>>))
    ELSE ParseItems(t, j, <<>>)
  ELSE PFail

\* "key" : value , ... } with position i at the opening quote of a key
ParseMembers(t, i, m) ==
  IF i > Len(t) \/ t[i] # QT THEN PFail
  ELSE
    LET k == ScanString(t, i + 1, <<>>) IN
    IF ~k.ok THEN PFail
    ELSE
      LET c == SkipWs(t, k.pos) IN
      IF c > Len(t) \/ t[c] # COLON THEN PFail
      ELSE
        LET v == ParseValue(t, SkipWs(t, c + 1)) IN
        IF ~v.ok THEN PFail
        ELSE
          LET e == SkipWs(t, v.pos)
              m2 == Put(m, k.val.s, v.val)
          IN
          IF e > Len(t) THEN PFail
          ELSE IF t[e] = RB THEN POk(e + 1, JObj(m2))
          ELSE IF t[e] = COMMA THEN ParseMembers(t, SkipWs(t, e + 1), m2)
          ELSE PFail

\* value , ... ] with position i at the first token of an item
ParseItems(t, i, l) ==
  LET v == ParseValue(t, i) IN
  IF ~v.ok THEN PFail
  ELSE
    LET e == SkipWs(t, v.pos) IN
    IF e > Len(t) THEN PFail
    ELSE IF t[e] = RSQ THEN POk(e + 1, JArr(Append(l, v.val)))
    ELSE IF t[e] = COMMA THEN ParseItems(t, SkipWs(t, e + 1), Append(l, v.val))
    ELSE PFail

\* json.loads(t): [ok, val]; ok = FALSE stands for json.JSONDecodeError
JsonLoads(t) ==
  LET r == ParseValue(t, SkipWs(t, 1)) IN
  IF r.ok /\ SkipWs(t, r.pos) = Len(t) + 1
  THEN [ok |-> TRUE, val |-> r.val]
  ELSE [ok |-> FALSE, val |-> JNull]

\* ------------------------------------- LLMClient._extract_json_object
FENCE == <<BT, BT, BT>>

\* "^" under re.MULTILINE: the start of the text or just after a newline
AtLineStart(t, i) == i = 1 \/ t[i - 1] = NL

\* the end of the match of r'^```(?:json)?\s*' that starts at position i,
\* 0 when it does not match there: a fence at a line start, an optional
\* json, and all the whitespace that follows (newlines included)
OpenFenceEnd(t, i) ==
  IF AtLineStart(t, i) /\ StartsAt(t, i, FENCE)
  THEN SkipWs(t, IF i + 3 <= Len(t) /\ t[i + 3] = "json" THEN i + 4 ELSE i + 3) - 1
  ELSE 0

\* the end of the match of r'```\s*$' that starts at position i, 0 when it
\* does not match there: a fence and the whitespace after it, when that
\* whitespace runs to the end of the text or, backtracking, up to the last
\* newline inside it ("$" matches before a newline)
CloseFenceEnd(t, i) ==
  IF ~StartsAt(t, i, FENCE) THEN 0
  ELSE
    LET e == SkipWs(t, i + 3)
        nl == {n \in (i + 3)..(e - 1) : t[n] = NL}
    IN
    IF e > Len(t) THEN Len(t) ELSE IF nl # {} THEN Max(nl) - 1 ELSE 0

\* re.sub(pattern, '', t) from position i on: the leftmost match is cut
\* out and the search resumes after it
RECURSIVE SubOpenFence(_, _)
SubOpenFence(t, i) ==
  LET ps == {p \in i..Len(t) : OpenFenceEnd(t, p) # 0} IN
  IF ps = {} THEN Slice(t, i, Len(t))
  ELSE Slice(t, i, Min(ps) - 1) \o SubOpenFence(t, OpenFenceEnd(t, Min(ps)) + 1)

RECURSIVE SubCloseFence(_, _)
SubCloseFence(t, i) ==
  LET ps == {p \in i..Len(t) : CloseFenceEnd(t, p) # 0} IN
  IF ps = {} THEN Slice(t, i, Len(t))
  ELSE Slice(t, i, Min(ps) - 1) \o SubCloseFence(t, CloseFenceEnd(t, Min(ps)) + 1)

\* lines 23-26
StripFences(t) == Strip(SubCloseFence(SubOpenFence(t, 1), 1))

\* the outcome of the locator: a span, or None (found = FALSE)
LocNone == [found |-> FALSE, span |-> <<>>]
LocSpan(s) == [found |-> TRUE, span |-> s]

\* the locator before its first statement
LocStart(t) ==
  [pc |-> "strip", text |-> t, start_idx |-> 0, i |-> 0, brace_count |-> 0,
   in_string |-> FALSE, escape_next |-> FALSE, result |-> LocNone]

\* the locator at rest, no call in progress
LocIdle == [LocStart(<<>>) EXCEPT !.pc = "idle"]

\* lines 23-40: strip the fences, return None on an empty text or a text
\* without "{", else start the scan at the first "{"
LocStrip(l) ==
  LET t == StripFences(l.text)
      s == Find(t, LB)
  IN
  IF t = <<>> \/ s = 0
  THEN [l EXCEPT !.pc = "done", !.text = t, !.result = LocNone]
  ELSE [l EXCEPT !.pc = "scan", !.text = t, !.start_idx = s, !.i = s]

\* LocCandidate with the slice one short: text[start_idx:i]
LocCandidateShortSlice(l) ==
  LET json_str == Slice(l.text, l.start_idx, l.i - 1) IN
  IF JsonLoads(json_str).ok
  THEN [l EXCEPT !.pc = "done", !.brace_count = 0, !.result = LocSpan(json_str)]
  ELSE [l EXCEPT !.brace_count = 0]

\* LocCandidate without json.loads: the candidate is returned as it is
LocCandidateUnchecked(l) ==
  [l EXCEPT !.pc = "done", !.brace_count = 0,
            !.result = LocSpan(Slice(l.text, l.start_idx, l.i))]

\* lines 65-74: depth is back at zero; the candidate is returned when strict
\* decoding accepts it, else the scan goes on
LocCandidate(l) ==
  LET json_str == Slice(l.text, l.start_idx, l.i) IN
  IF JsonLoads(json_str).ok
  THEN [l EXCEPT !.pc = "done", !.brace_count = 0, !.result = LocSpan(json_str)]
  ELSE [l EXCEPT !.brace_count = 0]

\* LocChar without the in_string test: braces inside strings are counted
LocCharCountsInString(l) ==
  LET char == l.text[l.i] IN
  IF l.escape_next THEN [l EXCEPT !.escape_next = FALSE]
  ELSE IF char = BS THEN [l EXCEPT !.escape_next = TRUE]
  ELSE IF char = QT THEN [l EXCEPT !.in_string = ~l.in_string]
  ELSE IF char = LB THEN [l EXCEPT !.brace_count = l.brace_count + 1]
  ELSE IF char = RB THEN
    IF l.brace_count - 1 = 0 THEN LocCandidate(l)
    ELSE [l EXCEPT !.brace_count = l.brace_count - 1]
  ELSE l

\* lines 43-74: the loop body for the character at position i
LocChar(l) ==
  LET char == l.text[l.i] IN
  IF l.escape_next THEN [l EXCEPT !.escape_next = FALSE]
  ELSE IF char = BS THEN [l EXCEPT !.escape_next = TRUE]
  ELSE IF char = QT THEN [l EXCEPT !.in_string = ~l.in_string]
  ELSE IF ~l.in_string THEN
    IF char = LB THEN [l EXCEPT !.brace_count = l.brace_count + 1]
    ELSE IF char = RB THEN
      IF l.brace_count - 1 = 0 THEN LocCandidate(l)
      ELSE [l EXCEPT !.brace_count = l.brace_count - 1]
    ELSE l
  ELSE l

\* line 42: one iteration of for i in range(start_idx, len(text))
LocScan(l) ==
  LET n == LocChar(l) IN
  IF n.pc = "done" THEN n
  ELSE IF l.i + 1 > Len(l.text) THEN [n EXCEPT !.pc = "fallback", !.i = l.i + 1]
  ELSE [n EXCEPT !.i = l.i + 1]

\* LocFallback that returns the remainder without decoding it
LocFallbackUnchecked(l) ==
  [l EXCEPT !.pc = "done",
            !.result = LocSpan(Strip(Slice(l.text, l.start_idx, Len(l.text))))]

\* lines 76-86: the remainder from the first "{", returned only when strict
\* decoding accepts it
LocFallback(l) ==
  LET potential_json == Strip(Slice(l.text, l.start_idx, Len(l.text))) IN
  IF JsonLoads(potential_json).ok
  THEN [l EXCEPT !.pc = "done", !.result = LocSpan(potential_json)]
  ELSE [l EXCEPT !.pc = "done", !.result = LocNone]

\* one step of the locator
LocStep(l) ==
  IF l.pc = "strip" THEN LocStrip(l)
  ELSE IF l.pc = "scan" THEN LocScan(l)
  ELSE IF l.pc = "fallback" THEN LocFallback(l)
  ELSE l

\* 2^k steps of the locator
RECURSIVE LocSteps(_, _)
LocSteps(l, k) ==
  IF l.pc = "done" THEN l
  ELSE IF k = 0 THEN LocStep(l)
  ELSE LocSteps(LocSteps(l, k - 1), k - 1)

\* the locator run to its return
RECURSIVE LocRun(_)
LocRun(l) == IF l.pc = "done" THEN l ELSE LocRun(LocSteps(l, 5))

\* _extract_json_object(text)
ExtractJsonObject(t) == LocRun(LocStart(t)).result

\* ------------------------------------------ LLMClient._safe_parse_json
\* str.replace(old, new): every non-overlapping occurrence, left to right
RECURSIVE Replace(_, _, _, _)
Replace(t, i, old, new) ==
  LET ps == {p \in i..Len(t) : StartsAt(t, p, old)} IN
  IF ps = {} THEN Slice(t, i, Len(t))
  ELSE Slice(t, i, Min(ps) - 1) \o new \o Replace(t, Min(ps) + Len(old), old, new)

\* line 105 as Python reads it: the three quotes open a string literal that
\* runs to the next three quotes, so its single replace has this old value
OLD_105 ==
  <<COMMA, SP, QT, "'", QT, ")", ".", "r", "e", "p", "l", "a", "c", "e", "(">>

\* lines 104-105: replace a straight double quote by itself, then OLD_105 by
\* a straight single quote
FixQuotes(t) == Replace(Replace(t, 1, <<QT>>, <<QT>>), 1, OLD_105, <<"'">>)

\* the position just after  "key" \s* : \s* "  or  "key" \s* : \s* [  when
\* that prefix matches at position i, else 0
AfterKey(t, i, key, open) ==
  IF ~StartsAt(t, i, <<QT, key, QT>>) THEN 0
  ELSE
    LET c == SkipWs(t, i + 3) IN
    IF c > Len(t) \/ t[c] # COLON THEN 0
    ELSE
      LET o == SkipWs(t, c + 1) IN
      IF o > Len(t) \/ t[o] # open THEN 0 ELSE o + 1

RNone == [matched |-> FALSE, group |-> <<>>]
RMatch(g) == [matched |-> TRUE, group |-> g]

\* re.search(r'"key"\s*:\s*"([^"]*)"', s): leftmost match, group 1
SearchScalar(t, key) ==
  LET End(i) == IF AfterKey(t, i, key, QT) = 0 THEN 0
                ELSE FindFrom(t, QT, AfterKey(t, i, key, QT))
      ps == {i \in 1..Len(t) : End(i) # 0}
  IN
  IF ps = {} THEN RNone
  ELSE RMatch(Slice(t, AfterKey(t, Min(ps), key, QT), End(Min(ps)) - 1))

\* re.search(r'"key"\s*:\s*\[(.*?)\]', s, re.DOTALL): leftmost match, the
\* lazy group ends at the first "]"
SearchList(t, key) ==
  LET End(i) == IF AfterKey(t, i, key, LSQ) = 0 THEN 0
                ELSE FindFrom(t, RSQ, AfterKey(t, i, key, LSQ))
      ps == {i \in 1..Len(t) : End(i) # 0}
  IN
  IF ps = {} THEN RNone
  ELSE RMatch(Slice(t, AfterKey(t, Min(ps), key, LSQ), End(Min(ps)) - 1))

\* re.findall(r'"([^"]*)"', s): the texts between successive pairs of quotes
RECURSIVE FindAllQuoted(_, _)
FindAllQuoted(t, i) ==
  LET p == FindFrom(t, QT, i)
      q == IF p = 0 THEN 0 ELSE FindFrom(t, QT, p + 1)
  IN
  IF q = 0 THEN <<>>
  ELSE <<JStr(Slice(t, p + 1, q - 1))>> \o FindAllQuoted(t, q + 1)

\* (?:[^"\\]|\\.)*" from position j: the position of the closing quote, 0
\* when the text ends first; a backslash takes the next character with it
RECURSIVE EscapedEnd(_, _)
EscapedEnd(t, j) ==
  IF j > Len(t) THEN 0
  ELSE IF t[j] = QT THEN j
  ELSE IF t[j] = BS THEN (IF j + 1 > Len(t) THEN 0 ELSE EscapedEnd(t, j + 2))
  ELSE EscapedEnd(t, j + 1)

\* re.search(r'"key"\s*:\s*"((?:[^"\\]|\\.)*)"', s, re.DOTALL)
SearchEscaped(t, key) ==
  LET End(i) == IF AfterKey(t, i, key, QT) = 0 THEN 0
                ELSE EscapedEnd(t, AfterKey(t, i, key, QT))
      ps == {i \in 1..Len(t) : End(i) # 0}
  IN
  IF ps = {} THEN RNone
  ELSE RMatch(Slice(t, AfterKey(t, Min(ps), key, QT), End(Min(ps)) - 1))

\* re.sub(r'\s+', ' ', s): every run of whitespace becomes one space
RECURSIVE CollapseWs(_, _)
CollapseWs(t, i) ==
  LET ps == {p \in i..Len(t) : IsSpace(t[p])} IN
  IF ps = {} THEN Slice(t, i, Len(t))
  ELSE Slice(t, i, Min(ps) - 1) \o <<SP>> \o CollapseWs(t, SkipWs(t, Min(ps)))

REQUIRED_FIELDS == {F_CAT, F_TAGS, F_DESC, F_MEM}

\* lines 114-140: the fields whose pattern matched, as a dict
ManualExtract(t) ==
  LET c == SearchScalar(t, F_CAT)
      g == SearchList(t, F_TAGS)
      d == SearchScalar(t, F_DESC)
      r == SearchEscaped(t, F_MEM)
  IN
  (IF c.matched THEN {<<(<<F_CAT>>), JStr(c.group)>>} ELSE {})
  \cup (IF g.matched THEN {<<(<<F_TAGS>>), JArr(FindAllQuoted(g.group, 1))>>} ELSE {})
  \cup (IF d.matched THEN {<<(<<F_DESC>>), JStr(d.group)>>} ELSE {})
  \cup (IF r.matched
        THEN {<<(<<F_MEM>>), JStr(Strip(CollapseWs(r.group, 1)))>>} ELSE {})

\* all(field in d for field in required_fields): d is a dict
HasAllFields(m) == \A f \in REQUIRED_FIELDS : <<f>> \in Keys(m)

\* the parser before its first statement; json_str is a locator outcome
\* (found = FALSE is None); tiers collects the tiers that were executed
ParStart(js) == [pc |-> "tier1", json_str |-> js, result |-> None, tiers |-> {}]

ParIdle == [ParStart(LocNone) EXCEPT !.pc = "idle"]

\* ParTier1 without its return: a successful strict decoding falls through
ParTier1FallsThrough(p) ==
  IF ~p.json_str.found \/ p.json_str.span = <<>>
  THEN [p EXCEPT !.pc = "done", !.result = None]
  ELSE
    LET r == JsonLoads(p.json_str.span) IN
    IF r.ok THEN [p EXCEPT !.pc = "tier2", !.result = r.val, !.tiers = @ \cup {1}]
    ELSE [p EXCEPT !.pc = "tier2", !.tiers = @ \cup {1}]

\* lines 92-99: None or the empty string returns None; else strict decoding
ParTier1(p) ==
  IF ~p.json_str.found \/ p.json_str.span = <<>>
  THEN [p EXCEPT !.pc = "done", !.result = None]
  ELSE
    LET r == JsonLoads(p.json_str.span) IN
    IF r.ok THEN [p EXCEPT !.pc = "done", !.result = r.val, !.tiers = @ \cup {1}]
    ELSE [p EXCEPT !.pc = "tier2", !.tiers = @ \cup {1}]

\* lines 102-110
ParTier2(p) ==
  LET r == JsonLoads(FixQuotes(p.json_str.span)) IN
  IF r.ok THEN [p EXCEPT !.pc = "done", !.result = r.val, !.tiers = @ \cup {2}]
  ELSE [p EXCEPT !.pc = "tier3", !.tiers = @ \cup {2}]

\* ParTier3 that returns whatever fields it found
ParTier3Partial(p) ==
  LET result == ManualExtract(p.json_str.span) IN
  IF result # {}
  THEN [p EXCEPT !.pc = "done", !.result = JObj(result), !.tiers = @ \cup {3}]
  ELSE [p EXCEPT !.pc = "done", !.result = None, !.tiers = @ \cup {3}]

\* lines 113-150
ParTier3(p) ==
  LET result == ManualExtract(p.json_str.span) IN
  IF HasAllFields(result)
  THEN [p EXCEPT !.pc = "done", !.result = JObj(result), !.tiers = @ \cup {3}]
  ELSE [p EXCEPT !.pc = "done", !.result = None, !.tiers = @ \cup {3}]

\* one step of the parser
ParStep(p) ==
  IF p.pc = "tier1" THEN ParTier1(p)
  ELSE IF p.pc = "tier2" THEN ParTier2(p)
  ELSE IF p.pc = "tier3" THEN ParTier3(p)
  ELSE p

RECURSIVE ParRun(_)
ParRun(p) == IF p.pc = "done" THEN p ELSE ParRun(ParStep(p))

\* _safe_parse_json(json_str)
SafeParseJson(js) == ParRun(ParStart(js)).result

\* ---------------------------------------------------- LLMClient.call_llm
\* what one remote call yields: a requests exception (transport), a
\* response without choices (no_choices), a response whose content is not a
\* string so that handling it raises (bad_content), or a content text
Reply(kind, t) == [kind |-> kind, text |-> t]

\* bool(v) of Python for a decoded value
Truthy(v) ==
  /\ v # None
  /\ ~(v.t = "obj" /\ v.m = {})
  /\ ~(v.t = "arr" /\ v.l = <<>>)
  /\ ~(v.t = "str" /\ v.s = <<>>)

\* what one attempt comes to: ret the value returned (None: no return),
\* diag the branch taken, missing the set printed at line 220, pause
\* whether the branch ends in the guarded time.sleep
Outcome(ret, diag, missing, pause) ==
  [ret |-> ret, diag |-> diag, missing |-> missing, pause |-> pause]


\* lines 176-242: the body of the loop for one reply
ProcessReply(r) ==
  IF r.kind = "transport" THEN Outcome(None, "transport", {}, TRUE)
  ELSE IF r.kind = "bad_content" THEN Outcome(None, "bad_content", {}, TRUE)
  ELSE IF r.kind = "no_choices" THEN Outcome(None, "no_choices", {}, FALSE)
  ELSE
    LET json_str == ExtractJsonObject(r.text)
        parsed_json == SafeParseJson(json_str)
    IN
    IF ~json_str.found THEN Outcome(None, "no_json", {}, TRUE)
    ELSE IF Truthy(parsed_json) THEN
      IF HasAllFields(parsed_json.m) THEN Outcome(parsed_json, "ok", {}, FALSE)
      ELSE Outcome(None, "missing_fields",
                   {f \in REQUIRED_FIELDS : <<f>> \notin Keys(parsed_json.m)}, TRUE)
    ELSE Outcome(None, "parse_failed", {}, TRUE)

\* ClLoop with the budget one short: range(max_retries - 1)
ClLoopOneShort(c) ==
  IF c.attempt < c.max_retries - 1 THEN [c EXCEPT !.pc = "call"]
  ELSE [c EXCEPT !.pc = "done", !.result = None]

\* the loop head, line 175: another attempt, or line 244 (return None)
ClLoop(c) ==
  IF c.attempt < c.max_retries THEN [c EXCEPT !.pc = "call"]
  ELSE [c EXCEPT !.pc = "done", !.result = None]

\* call_llm before its first attempt
ClStart(max_retries) ==
  ClLoop([pc |-> "call", attempt |-> 0, max_retries |-> max_retries,
          result |-> None, calls |-> 0, log |-> <<>>])

ClIdle == [ClStart(0) EXCEPT !.pc = "idle"]

ClEvent(ev, o) == [ev |-> ev, diag |-> o.diag, missing |-> o.missing]

\* lines 176-242: one attempt, the remote call made and its reply handled,
\* o being what ProcessReply makes of the reply
ClCall(c, o) ==
  LET d == [c EXCEPT !.calls = c.calls + 1,
                     !.log = Append(c.log, ClEvent("call", o))]
  IN
  IF o.ret # None THEN [d EXCEPT !.pc = "done", !.result = o.ret]
  ELSE IF o.pause /\ c.attempt < c.max_retries - 1 THEN [d EXCEPT !.pc = "sleep"]
  ELSE ClLoop([d EXCEPT !.attempt = c.attempt + 1])

\* time.sleep(self.retry_interval), then the next attempt
ClSleep(c) ==
  ClLoop([c EXCEPT !.attempt = c.attempt + 1,
                   !.log = Append(c.log, ClEvent("sleep", Outcome(None, "", {}, FALSE)))])

\* ------------------------------------------------------------ the texts
Q(t) == <<QT>> \o t \o <<QT>>
Member(key, value) == Q(<<key>>) \o <<COLON>> \o value

TagsAB == <<LSQ>> \o Q(<<"a">>) \o <<COMMA>> \o Q(<<"b">>) \o <<RSQ>>

\* an object text with the four required fields; memory is the raw text of
\* the memory value
RecordText(memory) ==
  <<LB>> \o Member(F_CAT, Q(<<"a">>)) \o <<COMMA>> \o Member(F_TAGS, TagsAB)
  \o <<COMMA>> \o Member(F_DESC, Q(<<"b">>)) \o <<COMMA>>
  \o Member(F_MEM, Q(memory)) \o <<RB>>

Fenced(t) == FENCE \o <<"json", NL>> \o t \o <<NL>> \o FENCE

VALID_A == <<"a", SP, "b", NL>> \o Fenced(RecordText(<<"a", SP, SP, "b">>))
VALID_B == RecordText(<<"b">>) \o <<SP, "a">>

\* the four keys are there, the tags are a number
BAD_TAGS ==
  <<LB>> \o Member(F_CAT, Q(<<"a">>)) \o <<COMMA>> \o Member(F_TAGS, <<"1">>)
  \o <<COMMA>> \o Member(F_DESC, Q(<<"b">>)) \o <<COMMA>>
  \o Member(F_MEM, Q(<<"a">>)) \o <<RB>>

\* the memory field is missing
MISSING_ONE ==
  <<LB>> \o Member(F_CAT, Q(<<"a">>)) \o <<COMMA>> \o Member(F_TAGS, TagsAB)
  \o <<COMMA>> \o Member(F_DESC, Q(<<"b">>)) \o <<RB>>

\* only the category is there, beside another key
MISSING_THREE ==
  <<LB>> \o Member(F_CAT, Q(<<"a">>)) \o <<COMMA>> \o Member("a", <<"1">>) \o <<RB>>

EMPTY_OBJECT == <<LB, RB>>

PROSE_ONLY == <<"a", SP, "b">>

\* a reply cut off inside the list of tags
TRUNCATED == FENCE \o <<"json", NL>> \o SubSeq(RecordText(<<"a">>), 1, 22)

ReplySet ==
  {Reply("transport", <<>>), Reply("no_choices", <<>>), Reply("bad_content", <<>>)}
  \cup {Reply("content", t) :
          t \in {VALID_A, VALID_B, BAD_TAGS, MISSING_ONE, MISSING_THREE,
                 EMPTY_OBJECT, PROSE_ONLY, TRUNCATED}}

\* what each reply of ReplySet comes to
ReplyOutcome == [r \in ReplySet |-> ProcessReply(r)]

\* call_llm run to its return on a script of replies, one per remote call
RECURSIVE ClRun(_, _)
ClRun(c, script) ==
  IF c.pc = "done" THEN c
  ELSE IF c.pc = "call"
  THEN ClRun(ClCall(c, ReplyOutcome[script[c.attempt + 1]]), script)
  ELSE ClRun(ClSleep(c), script)

\* ---------------------------------------------------------------- bounds
\* the largest max_retries (MAX_RETRIES of the configuration)
MaxAttempts == 3
\* the length of the prose before and after an embedded object
MaxProse == 1
\* the number of corpus files
NumFiles == 11
\* TEST_FILE_COUNT of the configuration
TestFileCount == 3
\* files that are skipped or get bad replies, over the whole behaviour
MaxFail == 1
\* writes of an artifact that fail, over the whole behaviour
MaxWriteFaults == 1
\* the file names of a directory tree
MaxNames == 2

\* ------------------------------------------------------ file_processor.py
\* a corpus file path is <<directory, file name>>
Basename(file_path) == file_path[2]

\* find_all_json_files: the sorted paths of the corpus
AllFiles == [k \in 1..NumFiles |-> <<1, k>>]

\* a directory tree under base_path: directory 0 has no 'empathy' in its
\* path, the others have; a file is a JSON file, an _analysis.json file or
\* something else
EmpathyDirs == {1, 2}
TreeFiles ==
  {[dir |-> d, name |-> n, ext |-> "json"] : d \in {0} \cup EmpathyDirs, n \in 1..MaxNames}
  \cup {[dir |-> 1, name |-> 1, ext |-> "analysis"], [dir |-> 2, name |-> 1, ext |-> "other"]}

\* the order of sorted() on the joined paths
PathBefore(p, q) == p[1] < q[1] \/ (p[1] = q[1] /\ p[2] < q[2])

RECURSIVE SortedPaths(_)
SortedPaths(S) ==
  IF S = {} THEN <<>>
  ELSE LET first == CHOOSE p \in S : \A q \in S \ {p} : PathBefore(p, q)
       IN <<first>> \o SortedPaths(S \ {first})

\* find_all_json_files(base_path), lines 6-19: the JSON files that are not
\* _analysis.json files, of the directories with 'empathy' in their path,
\* as os.path.join(root, file), sorted
FindAllJsonFiles(tree) ==
  SortedPaths({<<e.dir, e.name>> :
                 e \in {x \in tree : x.dir \in EmpathyDirs /\ x.ext = "json"}})

\* a durable file: absent, ok with the data last written whole, or corrupt
\* (a write that was cut short)
Absent == [state |-> "absent", data |-> <<>>]
Written(data) == [state |-> "ok", data |-> data]
Corrupt == [state |-> "corrupt", data |-> <<>>]

\* load_progress, lines 117-130: [] when the file is absent or unreadable
LoadProgress(a) == IF a.state = "ok" THEN a.data ELSE <<>>

\* load_existing_results, lines 142-154
LoadExistingResults(a) == IF a.state = "ok" THEN a.data ELSE <<>>

\* save_progress and save_results, lines 104-115 and 132-140: the file after
\* the call; how says whether the write went through (ok), failed before
\* the file was touched (unchanged) or failed after open() truncated it
\* (corrupt); the exception is swallowed
SaveFile(a, data, how) ==
  IF how = "ok" THEN Written(data)
  ELSE IF how = "unchanged" THEN a
  ELSE Corrupt

Range(q) == {q[i] : i \in 1..Len(q)}

\* ---------------------------------------------------------------- main.py
SAVE_EVERY == 10

\* RemainingFiles without the filter
RemainingFilesUnfiltered(all_files, processed_files, test_mode) ==
  IF test_mode THEN SubSeq(all_files, 1, IF TestFileCount < Len(all_files)
                                         THEN TestFileCount ELSE Len(all_files))
  ELSE all_files

\* lines 49-54: the files not in processed_files, in corpus order, cut to
\* TEST_FILE_COUNT in test mode
RemainingFiles(all_files, processed_files, test_mode) ==
  LET rest == SelectSeq(all_files, LAMBDA f : f \notin Range(processed_files))
      n == IF TestFileCount < Len(rest) THEN TestFileCount ELSE Len(rest)
  IN IF test_mode THEN SubSeq(rest, 1, n) ELSE rest

\* lines 99-102
ResultEntry(file_path, analysis) ==
  [file_name |-> Basename(file_path), analysis |-> analysis]

\* line 109: ', '.join(tags) raises TypeError unless tags is a list of
\* strings, a string or a dict
Joinable(analysis) ==
  \A p \in analysis.m :
    p[1] = <<F_TAGS>> =>
      \/ p[2].t = "str"
      \/ p[2].t = "arr" /\ \A i \in 1..Len(p[2].l) : p[2].l[i].t = "str"
      \/ p[2].t = "obj"

\* the corpus files that can lack conversation data or get bad replies
Flaky == {AllFiles[2], AllFiles[NumFiles]}

\* the scripts of replies the remote service follows for a file
Script(r) == [i \in 1..MaxAttempts |-> r]
DriverScripts ==
  {Script(Reply("content", VALID_A)),
   Script(Reply("content", MISSING_ONE)),
   Script(Reply("content", BAD_TAGS)),
   Script(Reply("transport", <<>>)),
   [i \in 1..MaxAttempts |->
      IF i = 1 THEN Reply("no_choices", <<>>) ELSE Reply("content", VALID_A)]}

\* line 95: call_llm run to its return on each of the scripts
ScriptRun == [script \in DriverScripts |-> ClRun(ClStart(MaxAttempts), script)]

\* ------------------------------------------------------------- the state
VARIABLES
  inp,        \* the input of the run, drawn at the start
  loc,        \* _extract_json_object: its locals and its position
  par,        \* _safe_parse_json: its locals and its position
  cl,         \* call_llm: its locals and its position
  main,       \* main(): its locals and its position
  disk,       \* the progress and the results file of each timestamp
  clock,      \* datetime.now(), in seconds
  test_mode,  \* TEST_MODE of the configuration
  hist        \* what is remembered of the behaviour so far

vars == <<inp, loc, par, cl, main, disk, clock, test_mode, hist>>
drv == <<main, disk, clock, test_mode, hist>>

\* main() not running
MainIdle ==
  [pc |-> "idle", timestamp |-> 0, remaining_files |-> <<>>, idx |-> 0,
   processed_files |-> <<>>, results |-> <<>>, success_count |-> 0,
   fail_count |-> 0]

\* the run before this one: how it ended, its timestamp, its two
\* files as it left them, the files it had appended but not yet saved
NoPrior == [ended |-> "none", timestamp |-> 0,
            progress |-> Absent, results |-> Absent, unsaved |-> {}]

\* loaded: what this run read from its files at startup; called: the files
\* this run made a remote call for; fails, write_faults: the failed
\* extractions and the failed writes so far; of this run, selected: the
\* files the loop took, in order; failed: those of them counted as failed;
\* final_saved: whether the final save was executed
HistStart ==
  [prior |-> NoPrior, loaded |-> [progress |-> <<>>, results |-> <<>>],
   called |-> {}, fails |-> 0, write_faults |-> 0,
   selected |-> <<>>, failed |-> {}, final_saved |-> FALSE]

\* the component specifications leave the driver idle
DrvIdle ==
  /\ main = MainIdle
  /\ disk = [progress |-> <<>>, results |-> <<>>]
  /\ clock = 0
  /\ test_mode = FALSE
  /\ hist = HistStart

\* ------------------------------------------- the locator, step by step
ProseChars == {"a", LB, RB, QT, BS, SP}
Prose == UNION {[1..k -> ProseChars] : k \in 0..MaxProse}

\* well-formed objects; most hold braces, quotes or backslashes in strings
Objects ==
  {<<LB>> \o Member("a", Q(<<"b">>)) \o <<RB>>,
   <<LB>> \o Member("a", Q(<<LB>>)) \o <<RB>>,
   <<LB>> \o Member("a", Q(<<RB>>)) \o <<RB>>,
   <<LB>> \o Member("a", Q(<<"a", SP, LB, "b", RB, SP, "a">>)) \o <<RB>>,
   <<LB>> \o Member("a", Q(<<RB, RB, LB>>)) \o <<RB>>,
   <<LB>> \o Member("a", Q(<<BS, QT, RB>>)) \o <<RB>>,
   <<LB>> \o Member("a", Q(<<RB, BS, BS>>)) \o <<COMMA>> \o Member("b", <<"1">>) \o <<RB>>,
   <<LB>> \o Member("a", <<LB>> \o Member("b", Q(<<RB>>)) \o <<RB>>) \o <<RB>>,
   <<LB, SP, RB>>}

\* the reply built around an object: prose, an opening fence line, the
\* object (cut to its first cut tokens when cut > 0), a closing fence line,
\* prose
TextOf(x) ==
  LET open == IF x.fence = "none" THEN <<>>
              ELSE (IF x.pre = <<>> THEN <<>> ELSE <<NL>>) \o FENCE
                   \o (IF x.fence = "json" THEN <<"json">> ELSE <<>>) \o <<NL>>
      body == IF x.cut = 0 THEN x.obj ELSE SubSeq(x.obj, 1, x.cut)
      close == IF x.fence = "none" \/ x.cut # 0 THEN <<>>
               ELSE <<NL>> \o FENCE \o (IF x.post = <<>> THEN <<>> ELSE <<NL>>)
  IN x.pre \o open \o body \o close \o x.post

Embedded ==
  {[kind |-> "embedded", pre |-> a, fence |-> f, obj |-> o, post |-> b, cut |-> 0] :
     a \in Prose, f \in {"none", "plain", "json"}, o \in Objects, b \in Prose}

\* replies that end inside the object their first "{" opens
Truncated ==
  UNION {{[kind |-> "truncated", pre |-> a, fence |-> f, obj |-> o, post |-> <<>>,
           cut |-> k] : k \in 1..(Len(o) - 1)} :
         a \in {p \in Prose : Find(p, LB) = 0}, f \in {"none", "json"}, o \in Objects}

\* objects with a fence inside: on a line of its own between a key and its
\* value, and at the end of a line inside a string value that spans lines
FenceObjects ==
  {<<LB>> \o Q(<<"a">>) \o <<COLON, NL>> \o FENCE \o <<NL, "1", RB>>,
   <<LB>> \o Member("a", Q(<<"b", SP>> \o FENCE \o <<NL, "b">>)) \o <<RB>>}

\* replies with a fence inside the body, bare or between fence lines
InteriorFence ==
  {[kind |-> "interior", pre |-> <<>>, fence |-> f, obj |-> o, post |-> <<>>,
    cut |-> 0] : f \in {"none", "json"}, o \in FenceObjects}

\* objects strict decoding rejects: a record of the four fields with a
\* comma before its closing brace, and an object in single quotes
NonStrictObjects ==
  {SubSeq(RecordText(<<"a">>), 1, Len(RecordText(<<"a">>)) - 1) \o <<COMMA, RB>>,
   <<LB, "'", "a", "'", COLON, "'", "b", "'", RB>>}

NonStrict ==
  {[kind |-> "nonstrict", pre |-> <<>>, fence |-> f, obj |-> o, post |-> <<>>,
    cut |-> 0] : f \in {"none", "json"}, o \in NonStrictObjects}

InitLocate ==
  /\ inp \in Embedded \cup Truncated \cup InteriorFence \cup NonStrict
  /\ loc = LocStart(TextOf(inp))
  /\ par = ParIdle
  /\ cl = ClIdle
  /\ DrvIdle

LocateStrip ==
  /\ loc.pc = "strip"
  /\ loc' = LocStrip(loc)
  /\ UNCHANGED <<inp, par, cl, drv>>

LocateScan ==
  /\ loc.pc = "scan"
  /\ loc' = LocScan(loc)
  /\ UNCHANGED <<inp, par, cl, drv>>

LocateFallback ==
  /\ loc.pc = "fallback"
  /\ loc' = LocFallback(loc)
  /\ UNCHANGED <<inp, par, cl, drv>>

NextLocate == LocateStrip \/ LocateScan \/ LocateFallback

SpecLocate == InitLocate /\ [][NextLocate]_vars

\* -------------------------------------------- the parser, step by step
DeleteAt(t, i) == SubSeq(t, 1, i - 1) \o SubSeq(t, i + 1, Len(t))
InsertAt(t, i, c) == SubSeq(t, 1, i - 1) \o <<c>> \o SubSeq(t, i, Len(t))

ParBases ==
  {RecordText(<<"a", SP, NL, "b">>), RecordText(<<"a", BS, QT, "b">>), MISSING_ONE}

\* a text that only the replace of line 105 makes decodable
ONLY_TIER2 == <<LB>> \o Member("a", <<QT, "b">> \o OLD_105 \o <<QT>>) \o <<RB>>

\* each base text, whole, with one token deleted, and with one quote added
ParTexts ==
  ParBases \cup {ONLY_TIER2, <<>>}
  \cup UNION {{DeleteAt(b, i) : i \in 1..Len(b)} : b \in ParBases}
  \cup UNION {{InsertAt(b, i, QT) : i \in 1..Len(b)} : b \in ParBases}

InitParse ==
  /\ inp \in {[kind |-> "parse", json_str |-> j] :
                j \in {LocNone} \cup {LocSpan(t) : t \in ParTexts}}
  /\ par = ParStart(inp.json_str)
  /\ loc = LocIdle
  /\ cl = ClIdle
  /\ DrvIdle

ParseTier1 ==
  /\ par.pc = "tier1"
  /\ par' = ParTier1(par)
  /\ UNCHANGED <<inp, loc, cl, drv>>

ParseTier2 ==
  /\ par.pc = "tier2"
  /\ par' = ParTier2(par)
  /\ UNCHANGED <<inp, loc, cl, drv>>

ParseTier3 ==
  /\ par.pc = "tier3"
  /\ par' = ParTier3(par)
  /\ UNCHANGED <<inp, loc, cl, drv>>

NextParse == ParseTier1 \/ ParseTier2 \/ ParseTier3

SpecParse == InitParse /\ [][NextParse]_vars

\* ------------------------------------------- call_llm, attempt by attempt
InitRetry ==
  /\ inp \in {[kind |-> "retry", script |-> sc] : sc \in [1..MaxAttempts -> ReplySet]}
  /\ cl \in {ClStart(m) : m \in 0..MaxAttempts}
  /\ loc = LocIdle
  /\ par = ParIdle
  /\ DrvIdle

\* one remote call and the handling of its reply
RetryCall ==
  /\ cl.pc = "call"
  /\ cl' = ClCall(cl, ReplyOutcome[inp.script[cl.attempt + 1]])
  /\ UNCHANGED <<inp, loc, par, drv>>

RetrySleep ==
  /\ cl.pc = "sleep"
  /\ cl' = ClSleep(cl)
  /\ UNCHANGED <<inp, loc, par, drv>>

NextRetry == RetryCall \/ RetrySleep

SpecRetry == InitRetry /\ [][NextRetry]_vars

\* ------------------------------------------------ main(), step by step
\* the timestamps a run and its rerun can get
Stamps == {1, 2}

InitMain ==
  /\ inp = [kind |-> "driver"]
  /\ loc = LocIdle
  /\ par = ParIdle
  /\ cl = ClIdle
  /\ main = [MainIdle EXCEPT !.pc = "start"]
  /\ disk = [progress |-> [ts \in Stamps |-> Absent],
             results |-> [ts \in Stamps |-> Absent]]
  /\ clock = 1
  /\ test_mode \in BOOLEAN
  /\ hist = HistStart

\* lines 8-69: the files are named after the clock, progress and results
\* are loaded from them, the work list is built; nothing left to do returns
\* at line 61 without a save
StartOn(all_files) ==
  /\ main.pc = "start"
  /\ LET timestamp == clock
         processed_files == LoadProgress(disk.progress[timestamp])
         results == LoadExistingResults(disk.results[timestamp])
         remaining_files == RemainingFiles(all_files, processed_files, test_mode)
     IN /\ main' = [pc |-> IF remaining_files = <<>> THEN "done" ELSE "loop",
                    timestamp |-> timestamp, remaining_files |-> remaining_files,
                    idx |-> 1, processed_files |-> processed_files,
                    results |-> results, success_count |-> 0, fail_count |-> 0]
        /\ hist' = [hist EXCEPT !.loaded = [progress |-> processed_files,
                                            results |-> results],
                                !.called = {}]
  /\ UNCHANGED <<inp, loc, par, cl, disk, clock, test_mode>>

\* main() on the corpus of the driver's specification
Start == StartOn(AllFiles)

\* the end of a loop turn, lines 130-132 and the loop head: the pacing
\* sleep when a file follows, the final save after the last file
AfterFile(m) ==
  IF m.idx < Len(m.remaining_files) THEN [m EXCEPT !.pc = "pace"]
  ELSE [m EXCEPT !.pc = "fsave1"]

\* lines 75-80: no conversation data, the file is counted as failed and the
\* loop continues with the next file, the pacing sleep skipped
SkipFile ==
  /\ main.pc = "loop"
  /\ main.remaining_files[main.idx] \in Flaky
  /\ hist.fails < MaxFail
  /\ main' = [main EXCEPT !.fail_count = @ + 1,
                          !.idx = IF main.idx < Len(main.remaining_files)
                                  THEN @ + 1 ELSE @,
                          !.pc = IF main.idx < Len(main.remaining_files)
                                 THEN "loop" ELSE "fsave1"]
  /\ hist' = [hist EXCEPT !.fails = @ + 1,
                          !.selected = Append(@, main.remaining_files[main.idx]),
                          !.failed = @ \cup {main.remaining_files[main.idx]}]
  /\ UNCHANGED <<inp, loc, par, cl, disk, clock, test_mode>>

\* HandleResult that records the file also when call_llm returned None
HandleResultRecordsFailed(m, file_path, analysis_result) ==
  IF Truthy(analysis_result)
  THEN LET d == [m EXCEPT !.results = Append(@, ResultEntry(file_path, analysis_result)),
                          !.processed_files = Append(@, file_path)]
       IN IF ~Joinable(analysis_result) THEN [d EXCEPT !.pc = "crashed"]
          ELSE IF Len(d.processed_files) % SAVE_EVERY = 0
          THEN [d EXCEPT !.success_count = @ + 1, !.pc = "psave1"]
          ELSE AfterFile([d EXCEPT !.success_count = @ + 1])
  ELSE AfterFile([m EXCEPT !.fail_count = @ + 1,
                           !.processed_files = Append(@, file_path)])

\* lines 95-120 on what call_llm returned: a record is appended with the
\* file, printed (line 109 raises on tags that cannot be joined) and counted,
\* every SAVE_EVERY-th file of processed_files leads to a save; None is
\* counted as a failure
HandleResult(m, file_path, analysis_result) ==
  IF Truthy(analysis_result)
  THEN LET d == [m EXCEPT !.results = Append(@, ResultEntry(file_path, analysis_result)),
                          !.processed_files = Append(@, file_path)]
       IN IF ~Joinable(analysis_result) THEN [d EXCEPT !.pc = "crashed"]
          ELSE IF Len(d.processed_files) % SAVE_EVERY = 0
          THEN [d EXCEPT !.success_count = @ + 1, !.pc = "psave1"]
          ELSE AfterFile([d EXCEPT !.success_count = @ + 1])
  ELSE AfterFile([m EXCEPT !.fail_count = @ + 1])

\* lines 71-120: the next file of the work list goes through call_llm, the
\* remote service answering by one of the scripts
ProcessFile ==
  /\ main.pc = "loop"
  /\ \E script \in DriverScripts : \E c \in {ScriptRun[script]} :
       LET file_path == main.remaining_files[main.idx]
           good == script = Script(Reply("content", VALID_A))
       IN /\ ~good => file_path \in Flaky /\ hist.fails < MaxFail
          /\ cl' = c
          /\ main' = HandleResult(main, file_path, c.result)
          /\ hist' = [hist EXCEPT
                        !.called = IF c.calls > 0 THEN @ \cup {file_path} ELSE @,
                        !.fails = IF good THEN @ ELSE @ + 1,
                        !.selected = Append(@, file_path),
                        !.failed = IF Truthy(c.result) THEN @
                                   ELSE @ \cup {file_path}]
  /\ UNCHANGED <<inp, loc, par, disk, clock, test_mode>>

\* lines 130-132: time.sleep(REQUEST_INTERVAL), then the next file
Pace ==
  /\ main.pc = "pace"
  /\ main' = [main EXCEPT !.idx = @ + 1, !.pc = "loop"]
  /\ UNCHANGED <<inp, loc, par, cl, disk, clock, test_mode, hist>>

\* how a write can go: a failed write needs the budget of write faults
Hows == {"ok"} \cup (IF hist.write_faults < MaxWriteFaults
                     THEN {"unchanged", "corrupt"} ELSE {})

\* save_progress(progress_file, processed_files) at a call site of main
WriteProgress(how) ==
  /\ disk' = [disk EXCEPT !.progress[main.timestamp] =
                SaveFile(@, main.processed_files, how)]
  /\ hist' = [hist EXCEPT !.write_faults = IF how = "ok" THEN @ ELSE @ + 1]

\* save_results(output_file, results) at a call site of main
WriteResults(how) ==
  /\ disk' = [disk EXCEPT !.results[main.timestamp] =
                SaveFile(@, main.results, how)]
  /\ hist' = [hist EXCEPT !.write_faults = IF how = "ok" THEN @ ELSE @ + 1]

\* line 115: the periodic save, its first write
PeriodicSaveProgress ==
  /\ main.pc = "psave1"
  /\ \E how \in Hows : WriteProgress(how)
  /\ main' = [main EXCEPT !.pc = "psave2"]
  /\ UNCHANGED <<inp, loc, par, cl, clock, test_mode>>

\* line 116: the periodic save, its second write, then on with the loop
PeriodicSaveResults ==
  /\ main.pc = "psave2"
  /\ \E how \in Hows : WriteResults(how)
  /\ main' = AfterFile(main)
  /\ UNCHANGED <<inp, loc, par, cl, clock, test_mode>>

\* line 135: the final save, its first write
FinalSaveProgress ==
  /\ main.pc = "fsave1"
  /\ \E how \in Hows : WriteProgress(how)
  /\ main' = [main EXCEPT !.pc = "fsave2"]
  /\ UNCHANGED <<inp, loc, par, cl, clock, test_mode>>

\* line 136: the final save, its second write; main returns
FinalSaveResults ==
  /\ main.pc = "fsave2"
  /\ \E how \in Hows :
       /\ disk' = [disk EXCEPT !.results[main.timestamp] =
                     SaveFile(@, main.results, how)]
       /\ hist' = [hist EXCEPT
                     !.write_faults = IF how = "ok" THEN @ ELSE @ + 1,
                     !.final_saved = TRUE]
  /\ main' = [main EXCEPT !.pc = "done"]
  /\ UNCHANGED <<inp, loc, par, cl, clock, test_mode>>

\* the process is killed between two steps of the loop; memory is lost, the
\* files stay as they are
Kill ==
  /\ main.pc \in {"loop", "pace", "psave1", "psave2", "fsave1", "fsave2"}
  /\ main' = [main EXCEPT !.pc = "dead"]
  /\ UNCHANGED <<inp, loc, par, cl, disk, clock, test_mode, hist>>

\* main() is started again, once, on the same corpus, in the same second
\* or in a later one
Restart ==
  /\ main.pc \in {"done", "dead", "crashed"}
  /\ hist.prior.ended = "none"
  /\ \E tick \in {0, 1} : clock' = clock + tick
  /\ main' = [MainIdle EXCEPT !.pc = "start"]
  /\ hist' = [hist EXCEPT
       !.prior = [ended |-> main.pc,
                  timestamp |-> main.timestamp,
                  progress |-> disk.progress[main.timestamp],
                  results |-> disk.results[main.timestamp],
                  unsaved |-> Range(main.processed_files)
                                \ Range(LoadProgress(disk.progress[main.timestamp]))],
       !.called = {}, !.selected = <<>>, !.failed = {}, !.final_saved = FALSE]
  /\ UNCHANGED <<inp, loc, par, cl, disk, test_mode>>

Init == InitMain

Next ==
  \/ Start
  \/ SkipFile
  \/ ProcessFile
  \/ Pace
  \/ PeriodicSaveProgress
  \/ PeriodicSaveResults
  \/ FinalSaveProgress
  \/ FinalSaveResults
  \/ Kill
  \/ Restart

Spec == Init /\ [][Next]_vars

\* one run of main() that nothing interrupts: the interpreter goes on to
\* the next statement as long as there is one
NextRun ==
  \/ Start
  \/ SkipFile
  \/ ProcessFile
  \/ Pace
  \/ PeriodicSaveProgress
  \/ PeriodicSaveResults
  \/ FinalSaveProgress
  \/ FinalSaveResults

SpecRun == Init /\ [][NextRun]_vars /\ WF_vars(NextRun)

\* ------------------------------------- main() on a tree of directories
\* one run of main(), nothing interrupting it, on the files that
\* find_all_json_files finds in a tree
InitCorpus ==
  /\ inp \in {[kind |-> "corpus", tree |-> t] : t \in SUBSET TreeFiles}
  /\ loc = LocIdle
  /\ par = ParIdle
  /\ cl = ClIdle
  /\ main = [MainIdle EXCEPT !.pc = "start"]
  /\ disk = [progress |-> [ts \in Stamps |-> Absent],
             results |-> [ts \in Stamps |-> Absent]]
  /\ clock = 1
  /\ test_mode = FALSE
  /\ hist = HistStart

\* line 29: all_files = find_all_json_files(BASE_PATH), then the start
CorpusStart == StartOn(FindAllJsonFiles(inp.tree))

NextCorpus ==
  \/ CorpusStart
  \/ SkipFile
  \/ ProcessFile
  \/ Pace
  \/ FinalSaveProgress
  \/ FinalSaveResults

SpecCorpus == InitCorpus /\ [][NextCorpus]_vars

\* ================================================================ claims
\* the files a progress file holds, the file names a results file holds
SavedFiles(a) == Range(LoadProgress(a))
SavedNames(a) == {e.file_name : e \in Range(LoadExistingResults(a))}
IsPrefix(p, q) == Len(p) <= Len(q) /\ SubSeq(q, 1, Len(p)) = p

\* C1 (resume): a run started after an interrupted one has loaded the
\* progress and the results of the interrupted run's last durable save, its
\* work list is the corpus files absent from that progress (cut to
\* TEST_FILE_COUNT in test mode), and no file of that progress gets a remote
\* call
C1_Resume ==
  (hist.prior.ended = "dead" /\ main.pc # "start") =>
    /\ hist.loaded.progress = LoadProgress(hist.prior.progress)
    /\ hist.loaded.results = LoadExistingResults(hist.prior.results)
    /\ Range(main.remaining_files) \subseteq
         Range(AllFiles) \ SavedFiles(hist.prior.progress)
    /\ ~test_mode => Range(main.remaining_files) =
                       Range(AllFiles) \ SavedFiles(hist.prior.progress)
    /\ hist.called \cap SavedFiles(hist.prior.progress) = {}

\* C2 (progress and results agree): whenever the process is not between
\* the two writes of a save (killed processes included), a file is in the
\* progress file of a timestamp if and only if the results file of that
\* timestamp holds an entry for it
C2_ProgressIffResults ==
  main.pc \notin {"psave2", "fsave2"} =>
    \A ts \in Stamps :
      {Basename(f) : f \in SavedFiles(disk.progress[ts])}
        = SavedNames(disk.results[ts])

\* C3 as stated (idempotent resume): a run started after a completed run,
\* on the same files, has an empty work list, makes no remote call and
\* appends no entry
C3_IdempotentResume ==
  (hist.prior.ended = "done" /\ main.pc # "start"
     /\ main.timestamp = hist.prior.timestamp) =>
    /\ main.remaining_files = <<>>
    /\ main.pc = "done"
    /\ hist.called = {}
    /\ main.results = hist.loaded.results

\* C3 amended: such a run makes no remote call and appends no entry for a
\* file the progress file holds, keeps the loaded results in front, and
\* when the progress file holds every corpus file it returns at once with
\* no call, no new entry and both files untouched
C3_ResumeSkipsSaved ==
  (hist.prior.ended = "done" /\ main.pc # "start"
     /\ main.timestamp = hist.prior.timestamp) =>
    LET saved == SavedFiles(hist.prior.progress) IN
    /\ hist.called \cap saved = {}
    /\ Range(main.remaining_files) \cap saved = {}
    /\ IsPrefix(LoadExistingResults(hist.prior.results), main.results)
    /\ \A i \in (Len(hist.loaded.results) + 1)..Len(main.results) :
         main.results[i].file_name \notin {Basename(f) : f \in saved}
    /\ ~test_mode =>
         Range(main.remaining_files) = Range(AllFiles) \ saved
    /\ Range(AllFiles) \subseteq saved =>
         /\ main.pc = "done"
         /\ hist.called = {}
         /\ main.results = hist.loaded.results
         /\ disk.progress[main.timestamp] = hist.prior.progress
         /\ disk.results[main.timestamp] = hist.prior.results

\* C3 witness: the first run saved every corpus file, the second, on the
\* same files, has returned without a call
C3_Witness ==
  /\ hist.prior.ended = "done"
  /\ main.timestamp = hist.prior.timestamp
  /\ Range(AllFiles) \subseteq SavedFiles(hist.prior.progress)
  /\ Len(hist.loaded.results) = NumFiles
  /\ main.pc = "done"
  /\ hist.called = {}

\* C4 (save atomicity): after a kill that left files appended but not yet
\* saved, the restarted run holds at most one entry and one progress record
\* for each of them, and every entry the results file held at the kill is
\* in the results the restarted run holds and in those it has saved
C4_SaveAtomicity ==
  (hist.prior.ended = "dead" /\ hist.prior.unsaved # {} /\ main.pc # "start") =>
    /\ \A f \in hist.prior.unsaved :
         /\ Cardinality({i \in 1..Len(main.results) :
                           main.results[i].file_name = Basename(f)}) <= 1
         /\ Cardinality({i \in 1..Len(main.processed_files) :
                           main.processed_files[i] = f}) <= 1
    /\ Range(LoadExistingResults(hist.prior.results)) \subseteq Range(main.results)
    /\ disk.results[main.timestamp].state = "ok" =>
         Range(LoadExistingResults(hist.prior.results))
           \subseteq Range(disk.results[main.timestamp].data)

\* the replies of the script that got a remote call, and what was logged
CallEvents == SelectSeq(cl.log, LAMBDA e : e.ev = "call")
ValidAt(k) == ReplyOutcome[inp.script[k]].ret # None
ValidWithin(m) == {k \in 1..m : ValidAt(k)}

\* C5 (retry budget): one call_llm with max_retries = M makes at most M
\* remote calls; when the k-th attempt (k <= M) is the first to yield a
\* valid record, that record is returned after exactly k remote calls; when
\* none of the first M attempts yields one, the result is None after M calls
C5_RetryBudget ==
  /\ cl.calls <= cl.max_retries
  /\ cl.pc = "done" =>
       IF ValidWithin(cl.max_retries) # {}
       THEN /\ cl.calls = Min(ValidWithin(cl.max_retries))
            /\ cl.result = ReplyOutcome[inp.script[cl.calls]].ret
       ELSE cl.calls = cl.max_retries /\ cl.result = None

\* C5 witness: every attempt but the last of the budget failed, the last
\* one returned its record
C5_Witness ==
  /\ cl.pc = "done"
  /\ cl.max_retries = MaxAttempts
  /\ cl.calls = MaxAttempts
  /\ cl.max_retries >= 2
  /\ cl.result # None
  /\ \A k \in 1..(MaxAttempts - 1) : ~ValidAt(k)

\* the dict the parser made of a content reply (None when there is none)
ParsedOf(r) ==
  IF r.kind = "content" THEN SafeParseJson(ExtractJsonObject(r.text)) ELSE None

\* C9 (record validity): call_llm returns a record only if it holds all
\* four required fields; for a parsed record that lacks required fields the
\* attempt fails and the set reported missing is exactly the set of absent
\* required fields
C9_RecordValidity ==
  /\ cl.result # None =>
       /\ HasAllFields(cl.result.m)
       /\ \E k \in 1..Len(CallEvents) : cl.result = ParsedOf(inp.script[k])
  /\ \A k \in 1..Len(CallEvents) :
       LET parsed == ParsedOf(inp.script[k]) IN
       (parsed.t = "obj" /\ ~HasAllFields(parsed.m)) =>
         /\ ~(cl.pc = "done" /\ cl.calls = k /\ cl.result # None)
         /\ CallEvents[k].diag = "missing_fields"
         /\ CallEvents[k].missing = REQUIRED_FIELDS \ {key[1] : key \in Keys(parsed.m)}

\* C6 as stated (locator balance): for every reply made of prose and fences
\* around one well-formed object, the locator returns a span that decodes
\* to the embedded object
C6_AnyProse ==
  (inp.kind = "embedded" /\ loc.pc = "done") =>
    /\ loc.result.found
    /\ JsonLoads(loc.result.span).val = JsonLoads(inp.obj).val

\* C6 amended: the same, for replies whose prose before the object holds
\* no "{"
C6_LocatorBalance ==
  (inp.kind = "embedded" /\ loc.pc = "done" /\ Find(inp.pre, LB) = 0) =>
    /\ loc.result.found
    /\ JsonLoads(loc.result.span).ok
    /\ JsonLoads(loc.result.span).val = JsonLoads(inp.obj).val

\* C6 witness: a fenced object between prose holding a quote and prose
\* holding a brace was located
C6_Witness ==
  /\ inp.kind = "embedded"
  /\ loc.pc = "done"
  /\ inp.pre = <<QT>>
  /\ inp.post = <<LB>>
  /\ inp.fence = "json"
  /\ inp.obj = <<LB>> \o Member("a", <<LB>> \o Member("b", Q(<<RB>>)) \o <<RB>>) \o <<RB>>
  /\ loc.result = LocSpan(inp.obj)

\* C7 (string-awareness): a brace read while the scan is inside a string
\* leaves the depth counter unchanged, and for a well-formed object (no "{"
\* in the prose before it) the span returned is the object itself, ending
\* at its own closing brace
C7_StringAwareness ==
  [][/\ (loc.pc = "scan" /\ loc.in_string /\ loc.text[loc.i] \in {LB, RB})
          => loc'.brace_count = loc.brace_count
     /\ (inp.kind = "embedded" /\ Find(inp.pre, LB) = 0 /\ loc'.pc = "done")
          => loc'.result = LocSpan(inp.obj)]_vars

\* C7 witness: an object whose string value holds unbalanced braces,
\* followed by prose, was returned whole
C7_Witness ==
  /\ inp.kind = "embedded"
  /\ inp.obj = <<LB>> \o Member("a", Q(<<RB, RB, LB>>)) \o <<RB>>
  /\ inp.post # <<>>
  /\ loc.pc = "done"
  /\ loc.result = LocSpan(inp.obj)

\* C8 (truncation fallback): for a reply that ends inside the object its
\* first "{" opens, the locator returns None, the parser given that returns
\* None, and the attempt fails without a record
C8_TruncationFallback ==
  (inp.kind = "truncated" /\ loc.pc = "done") =>
    /\ loc.result = LocNone
    /\ SafeParseJson(loc.result) = None
    /\ ProcessReply(Reply("content", TextOf(inp))).ret = None
    /\ ProcessReply(Reply("content", TextOf(inp))).diag = "no_json"

\* C8 witness: a fenced reply cut after the opening quote of a string value
\* went through the scan and the fallback
C8_Witness ==
  /\ inp.kind = "truncated"
  /\ inp.fence = "json"
  /\ inp.cut = 6
  /\ loc.pc = "done"
  /\ loc.i = Len(loc.text) + 1
  /\ loc.result = LocNone

PatCat == SearchScalar(inp.json_str.span, F_CAT)
PatTags == SearchList(inp.json_str.span, F_TAGS)
PatDesc == SearchScalar(inp.json_str.span, F_DESC)
PatMem == SearchEscaped(inp.json_str.span, F_MEM)
AllPatternsMatch ==
  PatCat.matched /\ PatTags.matched /\ PatDesc.matched /\ PatMem.matched
RecordOfGroups(norm(_)) ==
  JObj({<<(<<F_CAT>>), JStr(PatCat.group)>>,
        <<(<<F_TAGS>>), JArr(FindAllQuoted(PatTags.group, 1))>>,
        <<(<<F_DESC>>), JStr(PatDesc.group)>>,
        <<(<<F_MEM>>), JStr(norm(PatMem.group))>>})
CollapseOnly(g) == CollapseWs(g, 1)
CollapseAndStrip(g) == Strip(CollapseWs(g, 1))

\* C11 as stated (tier 3): when tier 3 ran, it returns a record if and only
\* if each of the four patterns matches; the record holds exactly the four
\* fields with the matched values, the memory with every whitespace run
\* collapsed to one space; otherwise the result is None
C11_Tier3CollapseOnly ==
  (par.pc = "done" /\ 3 \in par.tiers) =>
    /\ (par.result # None) <=> AllPatternsMatch
    /\ AllPatternsMatch => par.result = RecordOfGroups(CollapseOnly)

\* C11 amended: the same, the memory with every whitespace run collapsed to
\* one space and the whitespace at its two ends removed
C11_Tier3 ==
  (par.pc = "done" /\ 3 \in par.tiers) =>
    /\ (par.result # None) <=> AllPatternsMatch
    /\ AllPatternsMatch => par.result = RecordOfGroups(CollapseAndStrip)
    /\ ~AllPatternsMatch => par.result = None

\* C11 witness: a text strict decoding rejects, whose memory holds a run of
\* two whitespace characters, was recovered by tier 3
C11_Witness ==
  /\ par.pc = "done"
  /\ par.tiers = {1, 2, 3}
  /\ inp.json_str.span = RecordText(<<"a", SP, NL, "b">>)
  /\ par.result = RecordOfGroups(CollapseAndStrip)
  /\ <<(<<F_MEM>>), JStr(<<"a", SP, "b">>)>> \in par.result.m

\* a work-list file is DONE (in processed_files) or FAILED_SKIPPED
InTerminalState(f) == f \in Range(main.processed_files) \/ f \in hist.failed

\* C12 (termination): a run that nothing interrupts reaches its return,
\* every file of a non-empty work list then DONE or FAILED_SKIPPED and the
\* final save executed, whatever the remote service answers
C12_Terminates ==
  <>(/\ main.pc = "done"
     /\ main.remaining_files # <<>> =>
          /\ hist.final_saved
          /\ \A f \in Range(main.remaining_files) : InTerminalState(f))

\* C13 (a failed file leaves no trace): in the step where call_llm returns
\* None for a file, processed_files, results and both files of the run stay
\* as they are and the loop goes on (to the pacing sleep, or to the final
\* save after the last file); a file that failed in the run is never in
\* processed_files nor in the progress file of the run afterwards
C13_FailedFrame ==
  [][/\ (main.pc = "loop" /\ hist'.called # hist.called /\ cl'.result = None) =>
          /\ main'.processed_files = main.processed_files
          /\ main'.results = main.results
          /\ disk' = disk
          /\ main'.fail_count = main.fail_count + 1
          /\ main'.pc = IF main.idx < Len(main.remaining_files)
                        THEN "pace" ELSE "fsave1"
     /\ main'.pc # "start" =>
          \A f \in hist'.failed :
            /\ f \notin Range(main'.processed_files)
            /\ f \notin SavedFiles(disk'.progress[main'.timestamp])
            /\ Basename(f) \notin
                 {main'.results[i].file_name :
                    i \in (Len(hist'.loaded.results) + 1)..Len(main'.results)}]_vars

\* C13 witness: call_llm failed for a file, the run went on and saved all
\* the other files
C13_Witness ==
  /\ main.pc = "done"
  /\ hist.failed \cap hist.called # {}
  /\ disk.progress[main.timestamp].state = "ok"
  /\ Len(disk.progress[main.timestamp].data) = NumFiles - 1
  /\ hist.failed \cap SavedFiles(disk.progress[main.timestamp]) = {}

\* the files of processed_files and the number of entries of results that
\* the files of the run do not hold
UnsavedFiles == Range(main.processed_files) \ SavedFiles(disk.progress[main.timestamp])
UnsavedEntries ==
  Len(main.results) - Len(LoadExistingResults(disk.results[main.timestamp]))

\* C14 (save cadence): as long as no write has failed, while the driver is
\* about to call the remote service or is in its pacing sleep fewer than
\* SAVE_EVERY appended files and entries are missing from the files of the
\* run, and once the run has ended none is missing
C14_SaveCadence ==
  (hist.write_faults = 0 /\ main.pc # "start") =>
    /\ main.pc \in {"loop", "pace"} =>
         /\ Cardinality(UnsavedFiles) < SAVE_EVERY
         /\ UnsavedEntries < SAVE_EVERY
    /\ main.pc \in {"done", "crashed"} =>
         /\ UnsavedFiles = {}
         /\ UnsavedEntries = 0

\* C15 (retry pause): in the events of one call_llm every remote call that
\* is followed by another event is followed by one sleep, every sleep
\* stands between two remote calls, so that the next call is never made
\* without the pause, and the last event at the return is a remote call
C15_PauseBetweenCalls ==
  LET log == cl.log
      n == Len(log)
  IN
  cl.pc \in {"call", "sleep", "done"} =>
    /\ \A i \in 1..n :
         /\ (log[i].ev = "call" /\ i < n) => log[i + 1].ev = "sleep"
         /\ log[i].ev = "sleep" =>
              /\ i > 1 /\ log[i - 1].ev = "call"
              /\ i < n => log[i + 1].ev = "call"
    /\ (cl.pc = "call" /\ n > 0) => log[n].ev = "sleep"
    /\ (cl.pc = "done" /\ n > 0) => log[n].ev = "call"

\* C16 (pacing): within a run the driver moves on to the next file of the
\* work list only out of the pacing sleep, whatever way the handling of the
\* file before ended, and it never enters the pacing sleep after the last
\* file of the work list
C16_Pacing ==
  [][/\ (/\ main.pc \in {"loop", "pace", "psave1", "psave2"}
         /\ main'.pc = "loop"
         /\ main'.idx = main.idx + 1) => main.pc = "pace"
     /\ main'.pc = "pace" => main'.idx < Len(main'.remaining_files)]_vars

\* C17 (corrupt artifacts at startup): when the progress file or the results
\* file of the run is corrupt as main() starts, the start goes through with
\* processed_files and results both empty and with the work list that an
\* empty progress gives, so that every file kept out of the work list by
\* the progress has an entry in results
C17_CorruptStartsEmpty ==
  [][(/\ main.pc = "start"
      /\ main'.pc # "start"
      /\ \/ disk.progress[clock].state = "corrupt"
         \/ disk.results[clock].state = "corrupt") =>
       /\ main'.pc \in {"loop", "done"}
       /\ main'.processed_files = <<>>
       /\ main'.results = <<>>
       /\ main'.remaining_files = RemainingFiles(AllFiles, <<>>, test_mode)
       /\ \A f \in Range(main'.processed_files) :
            Basename(f) \in SavedNames(Written(main'.results))]_vars

\* the place of a file in the corpus
CorpusIndex(f) == CHOOSE k \in 1..NumFiles : AllFiles[k] = f

NoDuplicates(q) == \A i, j \in 1..Len(q) : q[i] = q[j] => i = j

\* C18 (no revisit): processed_files never holds a file twice, no file is
\* selected twice in a run, a file of the loaded progress is neither
\* selected nor sent to the remote service, and the files are selected in
\* the order of the corpus
C18_NoRevisit ==
  /\ NoDuplicates(main.processed_files)
  /\ NoDuplicates(hist.selected)
  /\ main.pc \notin {"idle", "start"} =>
       /\ Range(hist.loaded.progress) \cap Range(hist.selected) = {}
       /\ Range(hist.loaded.progress) \cap hist.called = {}
       /\ hist.called \subseteq Range(hist.selected)
       /\ Range(hist.selected) \subseteq Range(main.remaining_files)
  /\ \A i, j \in 1..Len(hist.selected) :
       i < j => CorpusIndex(hist.selected[i]) < CorpusIndex(hist.selected[j])

\* C18 witness: a run that loaded a progress of several files has gone
\* through its whole work list of several files, with remote calls
C18_Witness ==
  /\ main.pc = "done"
  /\ Len(hist.loaded.progress) >= 2
  /\ Len(hist.selected) >= 2
  /\ hist.called # {}

\* the reply without a fence line at its very start and without a fence at
\* its very end, stripped: the patterns of lines 23 and 25 with "^" and "$"
\* taken as the start and the end of the whole reply
StripOuterFences(t) ==
  LET a == IF OpenFenceEnd(t, 1) # 0 THEN Slice(t, OpenFenceEnd(t, 1) + 1, Len(t))
           ELSE t
      ps == {p \in 1..Len(a) : StartsAt(a, p, FENCE) /\ SkipWs(a, p + 3) > Len(a)}
  IN Strip(IF ps = {} THEN a ELSE Slice(a, 1, Min(ps) - 1))

\* C19 (fence strip): the text the locator scans is the reply without the
\* fence line at its very start and the fence at its very end, stripped;
\* a fence anywhere else in the reply is still in the text scanned
C19_FenceStrip ==
  loc.pc \in {"scan", "fallback", "done"} => loc.text = StripOuterFences(TextOf(inp))

\* C20 (locator output is strict JSON): a span the locator returns is
\* accepted by strict decoding, so the parser given that span returns its
\* strict decoding having run tier 1 only; for a reply whose object strict
\* decoding rejects the locator returns None and the attempt ends as a
\* locator miss
C20_LocatorStrict ==
  loc.pc = "done" =>
    /\ loc.result.found =>
         /\ JsonLoads(loc.result.span).ok
         /\ ParRun(ParStart(loc.result)).tiers = {1}
         /\ SafeParseJson(loc.result) = JsonLoads(loc.result.span).val
    /\ inp.kind = "nonstrict" =>
         /\ loc.result = LocNone
         /\ ProcessReply(Reply("content", TextOf(inp))).ret = None
         /\ ProcessReply(Reply("content", TextOf(inp))).diag = "no_json"

\* C20 witness: the locator returned None for a fenced record with a comma
\* before its closing brace, a text from which the parser, had it been
\* given it, recovers the four fields at tier 3
C20_Witness ==
  /\ inp.kind = "nonstrict"
  /\ inp.fence = "json"
  /\ loc.pc = "done"
  /\ loc.result = LocNone
  /\ ParRun(ParStart(LocSpan(inp.obj))).tiers = {1, 2, 3}
  /\ HasAllFields(SafeParseJson(LocSpan(inp.obj)).m)

\* C21 (entries identify files): the entries of results stand, in order,
\* for the files of processed_files, and two different files of
\* processed_files have entries with different file names
C21_EntriesIdentifyFiles ==
  /\ Len(main.results) = Len(main.processed_files)
  /\ \A i, j \in 1..Len(main.processed_files) :
       main.processed_files[i] # main.processed_files[j] =>
         main.results[i].file_name # main.results[j].file_name
====
